---- MODULE Spec2Model ----
(***************************************************************************)
(* Model of the gesture-driven particle tree (src/index.tsx):              *)
(*   - GeminiLiveService: live (streaming) tier, polling fallback tier,    *)
(*     interval timers, in-flight frame encodings and polling requests;    *)
(*   - App: the gestureData state, the gesture callback, toggleSimulation; *)
(*   - Experience: the progress animation loop;                            *)
(*   - Ornaments, Fillers: a particle with its formed, chaos and current   *)
(*     positions, and the per-frame update.                                *)
(* The remote SDK (live.connect, its callbacks, generateContent) is the    *)
(* environment: its events are the nondeterministic actions below.         *)
(***************************************************************************)
EXTENDS Integers, FiniteSets, Sequences, TLC

VARIABLES
    apiKey,            \* process.env.API_KEY ("" = unset)
    ai,                \* GeminiLiveService.ai: "null" or "client"
    isFallbackActive,  \* GeminiLiveService.isFallbackActive
    session,           \* GeminiLiveService.session: Null or a live session
    intervalId,        \* GeminiLiveService.intervalId: NoTimer, or the kind of
                       \* the timer it names and whether that timer still runs
    timers,            \* the window's active interval timers, counted by kind
    connects,          \* number of live.connect calls made so far
    socket,            \* per live session: idle/connecting/open/closed/failed
    promise,           \* per live.connect call: none/pending/settled
    blobPending,       \* canvas.toBlob callbacks not yet run
    encodePending,     \* toBlob callbacks suspended in await blobToBase64
    pollPending,       \* generateContent requests in flight
    gestureData,       \* App state: [state, handX, handY]
    progress,          \* Experience state, in units of 1/Resolution
    target,            \* the target captured by Experience's running effect
                       \* (its animate closure), in units of 1/Resolution
    heap,              \* the THREE.Vector3 objects of the scene, by reference
    ensemble,          \* a mounted ensemble: NoEnsemble, or its kind, its
                       \* particle (references into heap) and what its last
                       \* render captured
    turns,             \* clicks, and live messages to the scene, so far
    last               \* what the step just taken did towards the App and the
                       \* live session

svcVars == <<ai, isFallbackActive, session, intervalId, timers, socket>>
envVars == <<connects, promise>>
flightVars == <<blobPending, encodePending, pollPending>>
sceneVars == <<heap, ensemble>>
vars == <<apiKey, ai, isFallbackActive, session, intervalId, timers,
          connects, socket, promise,
          blobPending, encodePending, pollPending,
          gestureData, progress, target, heap, ensemble, turns, last>>

-----------------------------------------------------------------------------
(* Bounds of the model *)

\* live.connect calls explored (repeated connect needs at least 2)
MaxConnects == 2
\* toBlob callbacks, encodings and polling requests in flight, in total
MaxPending == 1
\* progress is kept in units of 1/Resolution
Resolution == 10000
\* particle coordinates are kept in units of 1/Lattice
Lattice == 50
\* clicks of the button explored, and live messages too where the scene
\* is followed
MaxTurns == 1

-----------------------------------------------------------------------------
(* JavaScript values of the fields of a parsed response *)

Null == 0

Undef == [t |-> "undefined", s |-> "", n |-> 0]
JNull == [t |-> "null", s |-> "", n |-> 0]
Str(v) == [t |-> "string", s |-> v, n |-> 0]
Num(v) == [t |-> "number", s |-> "", n |-> v]

Json(st, x, y) == [state |-> st, x |-> x, y |-> y]
EmptyJson == Json(Undef, Undef, Undef)

\* A text (part.text, response.text): its shape and the object it spells.
\*   empty     ""                                  (falsy)
\*   object    a JSON object on one line
\*   wrapped   a one-line JSON object inside prose or a code fence
\*   multiline a JSON object printed over several lines
\*   scalar    valid JSON that is a number or a string
\*   null      the JSON text null
\*   broken    braces around text that is not JSON
\*   garbage   text without braces that is not JSON
Text(form, json) == [form |-> form, json |-> json]
NoText == Text("none", EmptyJson)

TreeState == {"CHAOS", "FORMED"}
GestureDataOf(st, hx, hy) == [state |-> st, handX |-> hx, handY |-> hy]
NoData == GestureDataOf("NONE", 0, 0)

-----------------------------------------------------------------------------
(* Parsing and decoding of a response, per tier *)

Parsed(ok, json) == [ok |-> ok, json |-> json]

\* onmessage: part.text truthy, /\{.*\}/ matches, JSON.parse(match[0]);
\* '.' does not match a line break; any throw is swallowed.
LiveParse(text) ==
    CASE text.form \in {"object", "wrapped"} -> Parsed(TRUE, text.json)
      [] OTHER -> Parsed(FALSE, EmptyJson)

PollParseLenient(text) ==
    CASE text.form \in {"object", "multiline"} -> Parsed(TRUE, text.json)
      [] OTHER -> Parsed(TRUE, EmptyJson)

\* polling: response.text truthy, JSON.parse(response.text); property reads
\* on a number or string give undefined, on null they throw; throws are
\* caught.
PollParse(text) ==
    CASE text.form \in {"object", "multiline"} -> Parsed(TRUE, text.json)
      [] text.form = "scalar" -> Parsed(TRUE, EmptyJson)
      [] OTHER -> Parsed(FALSE, EmptyJson)

LiveDecodeLower(json) ==
    GestureDataOf(IF json.state \in {Str("CHAOS"), Str("chaos")} THEN "CHAOS" ELSE "FORMED",
                  IF json.x.t = "number" THEN json.x.n ELSE 0,
                  IF json.y.t = "number" THEN json.y.n ELSE 0)

LiveDecode(json) ==
    GestureDataOf(IF json.state = Str("CHAOS") THEN "CHAOS" ELSE "FORMED",
                  IF json.x.t = "number" THEN json.x.n ELSE 0,
                  IF json.y.t = "number" THEN json.y.n ELSE 0)

PollDecode(json) ==
    GestureDataOf(IF json.state = Str("CHAOS") THEN "CHAOS" ELSE "FORMED",
                  IF json.x.t = "number" THEN json.x.n ELSE 0,
                  IF json.y.t = "number" THEN json.y.n ELSE 0)

-----------------------------------------------------------------------------
(* App: gesture callback and manual toggle *)

GestureCallbackFollow(prev, data) ==
    GestureDataOf(data.state, data.handX, data.handY)

GestureCallbackInverted(prev, data) ==
    GestureDataOf(IF data.state = "FORMED" THEN "CHAOS" ELSE prev.state,
                  data.handX, data.handY)

GestureCallbackKeepHand(prev, data) ==
    GestureDataOf(IF data.state = "CHAOS" THEN "CHAOS" ELSE prev.state,
                  prev.handX, prev.handY)

\* setGestureData(prev => ...) inside the callback given to connect
GestureCallback(prev, data) ==
    GestureDataOf(IF data.state = "CHAOS" THEN "CHAOS" ELSE prev.state,
                  data.handX, data.handY)

toggleSimulationReset(prev) ==
    GestureDataOf(IF prev.state = "FORMED" THEN "CHAOS" ELSE "FORMED", 0, 0)

\* setGestureData(prev => ({...prev, state: flipped}))
toggleSimulation(prev) ==
    [prev EXCEPT !.state = IF @ = "FORMED" THEN "CHAOS" ELSE "FORMED"]

-----------------------------------------------------------------------------
(* Experience: the progress animation, one setProgress update per frame *)

One == Resolution
Abs(v) == IF v < 0 THEN 0 - v ELSE v

\* diff * 0.05, rounded to the nearest unit of 1/Resolution
Scaled(diff) ==
    IF diff < 0 THEN 0 - ((Abs(diff) * 5 + 50) \div 100)
                ELSE (diff * 5 + 50) \div 100

\* const target = gestureData.state === TreeState.CHAOS ? 1 : 0
Target(st) == IF st = "CHAOS" THEN One ELSE 0

animateOvershoot(prev, goal) ==
    LET diff == goal - prev
    IN  IF Abs(diff) * 1000 < Resolution THEN goal ELSE prev + diff + Scaled(diff)

\* setProgress(prev => |diff| < 0.001 ? target : prev + diff * 0.05)
animate(prev, goal) ==
    LET diff == goal - prev
    IN  IF Abs(diff) * 1000 < Resolution THEN goal ELSE prev + Scaled(diff)

-----------------------------------------------------------------------------
(* Ornaments and Fillers: one particle of an ensemble.  Every particle has   *)
(* its own Vector3 objects and the frame loop treats each alike; rotation,   *)
(* scale and colour do not touch positions and are left out.                 *)

\* A THREE.Vector3, coordinates in units of 1/Lattice.
Vec(x, y, z) == [x |-> x, y |-> y, z |-> z]

\* A position given in world units.
World(x, y, z) == Vec(x * Lattice, y * Lattice, z * Lattice)

NoHeap == << >>
NoEnsemble == [kind |-> "none", targetPos |-> Null, chaosPos |-> Null,
               currentPos |-> Null, speed |-> 0, temp |-> Null,
               chaotic |-> FALSE]

\* Vector3.clone(): a new object with the same coordinates.
cloneShared(h, ref) == [heap |-> h, ref |-> ref]

clone(h, ref) == [heap |-> Append(h, h[ref]), ref |-> Len(h) + 1]

\* Vector3.copy(v): overwrite this object's coordinates with v's.
copy(h, ref, src) == [h EXCEPT ![ref] = h[src]]

\* (diff * pct) / 100, rounded to the nearest unit of 1/Lattice
Portion(diff, pct) ==
    IF diff < 0 THEN 0 - ((Abs(diff) * pct + 50) \div 100)
                ELSE (diff * pct + 50) \div 100

\* Vector3.lerp(v, alpha): this += (v - this) * alpha, in place;
\* alpha is given in hundredths.
lerp(h, ref, dest, pct) ==
    [h EXCEPT ![ref] = Vec(@.x + Portion(h[dest].x - @.x, pct),
                           @.y + Portion(h[dest].y - @.y, pct),
                           @.z + Portion(h[dest].z - @.z, pct))]

\* Math.sin(Date.now() * 0.001 + i) * 0.02: between -0.02 and 0.02
Wobble == { Portion(w * Lattice, 2) : w \in {-1, 0, 1} }

\* new THREE.Object3D(): its position is a new vector at the origin.
Object3D(h) == [heap |-> Append(h, Vec(0, 0, 0)), ref |-> Len(h) + 1]

\* useMemo, run by the first render only: targetPos and chaosPos are new
\* vectors, currentPos is a clone of chaosPos.
useMemo(kind, formed, chaos, speed) ==
    LET made == <<formed, chaos>>
        cur  == clone(made, 2)
    IN  [heap |-> cur.heap,
         data |-> [kind |-> kind, targetPos |-> 1, chaosPos |-> 2,
                   currentPos |-> cur.ref, speed |-> speed, temp |-> Null,
                   chaotic |-> FALSE]]

\* One call of the component function with the data d of useMemo: it makes
\* a new tempObject and its useFrame closure captures the progress prop.
\* The tempObject of the previous render is dropped: the new one takes its
\* place in the heap.  Of the captured progress the closure only ever
\* reads progress > 0.5, which is what is kept.
render(h, d, prog) ==
    LET tmp == IF d.temp = Null THEN Object3D(h)
               ELSE [heap |-> [h EXCEPT ![d.temp] = Vec(0, 0, 0)],
                     ref |-> d.temp]
    IN  [heap |-> tmp.heap,
         data |-> [d EXCEPT !.temp = tmp.ref, !.chaotic = prog * 2 > One]]

\* useLayoutEffect (deps [data]: after the first render only):
\*   tempObject.position.copy(d.targetPos)
useLayoutEffect(h, d) == copy(h, d.temp, d.targetPos)

\* The first render of the component, with its layout effect.
mount(kind, formed, chaos, speed, prog) ==
    LET m == useMemo(kind, formed, chaos, speed)
        r == render(m.heap, m.data, prog)
    IN  [heap |-> useLayoutEffect(r.heap, r.data), data |-> r.data]

\* useFrame of Ornaments and Fillers, for the particle d, with the progress
\* captured by the last render:
\*   dest = progress > 0.5 ? d.chaosPos : d.targetPos
\*   d.currentPos.lerp(dest, d.speed)
\*   (Ornaments) if (progress > 0.5) d.currentPos.y += wobble
\*   tempObject.position.copy(d.currentPos)
frame(h, d, wobble) ==
    LET dest == IF d.chaotic THEN d.chaosPos ELSE d.targetPos
        h1 == lerp(h, d.currentPos, dest, d.speed)
        h2 == IF d.chaotic /\ d.kind = "ornaments"
              THEN [h1 EXCEPT ![d.currentPos].y = @ + wobble]
              ELSE h1
    IN  copy(h2, d.temp, d.currentPos)

-----------------------------------------------------------------------------
(* GeminiLiveService: the fields as one record, and its methods *)

\* Interval timers of one kind run the same closure, so the window's timers
\* are kept as a count per kind, and intervalId as the kind of the timer it
\* names together with whether that timer is still active.
NoTimer == [kind |-> "none", active |-> FALSE]
Timer(kind) == [kind |-> kind, active |-> TRUE]
NoTimers == [streaming |-> 0, polling |-> 0]

Svc == [ai |-> ai, isFallbackActive |-> isFallbackActive, session |-> session,
        intervalId |-> intervalId, timers |-> timers, socket |-> socket]

Commit(s) ==
    /\ ai' = s.ai
    /\ isFallbackActive' = s.isFallbackActive
    /\ session' = s.session
    /\ intervalId' = s.intervalId
    /\ timers' = s.timers
    /\ socket' = s.socket

TruthyAlways(v) == TRUE

\* process.env.API_KEY / apiKey as a condition
Truthy(v) == v # ""

\* this.intervalId = window.setInterval(...)
setInterval(s, kind) ==
    [s EXCEPT !.intervalId = Timer(kind), !.timers[kind] = @ + 1]

\* clearInterval(this.intervalId): stops the timer the field names, if it
\* still runs; the field goes on naming it
clearInterval(s) ==
    IF s.intervalId.active
    THEN [s EXCEPT !.timers[s.intervalId.kind] = @ - 1, !.intervalId.active = FALSE]
    ELSE s

\* try { this.session.close() } catch (e) {}
closeSession(s) == [s EXCEPT !.socket[s.session] = "closed"]

startStreamingLive(s) == setInterval(s, "streaming")

startPollingFallback(s) == setInterval(s, "polling")

switchToFallback(s) ==
    IF s.isFallbackActive THEN s
    ELSE LET s1 == [s EXCEPT !.isFallbackActive = TRUE]
             s2 == IF s1.intervalId # NoTimer
                   THEN [clearInterval(s1) EXCEPT !.intervalId = NoTimer]
                   ELSE s1
             s3 == IF s2.session # Null
                   THEN [closeSession(s2) EXCEPT !.session = Null] ELSE s2
         IN  startPollingFallback(s3)

\* disconnect(): intervalId is left naming the cleared timer
disconnect(s) ==
    LET s1 == [s EXCEPT !.isFallbackActive = FALSE]
        s2 == IF s1.intervalId # NoTimer THEN clearInterval(s1) ELSE s1
        s3 == IF s2.session # Null THEN closeSession(s2) ELSE s2
    IN  [s3 EXCEPT !.session = Null, !.ai = "null"]

\* connect() up to the await: the guard, the client, the flag reset
connectEnter(s, key) ==
    IF ~Truthy(key) THEN s
    ELSE [s EXCEPT !.ai = "client", !.isFallbackActive = FALSE]

-----------------------------------------------------------------------------
(* What a step did towards the App and the live session *)

Ev(op) == [op |-> op, text |-> NoText, called |-> FALSE, data |-> NoData, to |-> Null]
EvTo(op, c) == [Ev(op) EXCEPT !.to = c]
EvData(op, text, data) ==
    [op |-> op, text |-> text, called |-> TRUE, data |-> data, to |-> Null]
EvText(op, text) == [Ev(op) EXCEPT !.text = text]
EvPrev(op, prev) == [Ev(op) EXCEPT !.data = prev]

Sessions == 1..MaxConnects

-----------------------------------------------------------------------------
(* Texts the remote side may answer with *)

\* responses used while the service's tiers and timers are explored
ServiceTexts ==
    { Text("object", Json(Str("CHAOS"), Num(1), Num(-1))),
      Text("garbage", EmptyJson) }

StateFields == {Undef, JNull, Str("CHAOS"), Str("FORMED"), Str("chaos")}
XFields == {Undef, Str("1"), Num(-2), Num(1)}
YFields == {Undef, Num(-1), Num(2)}

\* responses used where the decoding itself is explored
AllTexts ==
    { Text(f, Json(st, x, y)) :
        f \in {"object", "wrapped", "multiline"},
        st \in StateFields, x \in XFields, y \in YFields }
    \cup { Text(f, EmptyJson) : f \in {"empty", "scalar", "null", "broken", "garbage"} }

\* responses used where the animation is explored
AnimTexts ==
    { Text("object", Json(Str("CHAOS"), Num(0), Num(0))),
      Text("object", Json(Str("FORMED"), Num(0), Num(0))) }

\* the response that moves the tree, used where the scene is explored
SceneTexts == { Text("object", Json(Str("CHAOS"), Num(0), Num(0))) }

-----------------------------------------------------------------------------
(* Initial states *)

InitApp ==
    /\ gestureData = GestureDataOf("FORMED", 0, 0)
    /\ progress = 0
    /\ target = Target("FORMED")
    /\ turns = 0
    /\ last = Ev("init")

\* the scene's ensembles are followed in SpecScene only
Unmounted == heap = NoHeap /\ ensemble = NoEnsemble

\* Particles as the generators of useMemo can produce them (Math.random
\* drawn so that the coordinates are whole): formed position at height 6
\* on the cone, chaos position in the sphere around (0,10,0) for Ornaments
\* and (0,5,0) for Fillers, speed 0.05.
Particles ==
    { [kind |-> "ornaments", target |-> World(2, 6, 0),
       chaos |-> World(2, 7, 0), speed |-> 5],
      [kind |-> "fillers", target |-> World(1, 6, 0),
       chaos |-> World(1, 5, 1), speed |-> 5] }

\* the scene just mounted: first render at progress 0
Mounted ==
    \E p \in Particles :
        LET m == mount(p.kind, p.target, p.chaos, p.speed, 0)
        IN  heap = m.heap /\ ensemble = m.data

\* the scene at rest in chaos: mounted, the tree state turned CHAOS before
\* a frame ran, progress has reached 1 and the ensemble has rendered with it
Scattered ==
    \E p \in Particles :
        LET m == mount(p.kind, p.target, p.chaos, p.speed, 0)
            r == render(m.heap, m.data, One)
        IN  heap = r.heap /\ ensemble = r.data

\* after construction: no connection yet; the key is set or not
Init ==
    /\ apiKey \in {"", "key"}
    /\ ai = "null"
    /\ isFallbackActive = FALSE
    /\ session = Null
    /\ intervalId = NoTimer
    /\ timers = NoTimers
    /\ connects = 0
    /\ socket = [c \in Sessions |-> "idle"]
    /\ promise = [c \in Sessions |-> "none"]
    /\ blobPending = 0
    /\ encodePending = 0
    /\ pollPending = 0
    /\ InitApp
    /\ Unmounted

\* the service streaming on its first live session
\* (connect, onopen, connect resolved)
LiveTier ==
    /\ apiKey = "key"
    /\ ai = "client"
    /\ isFallbackActive = FALSE
    /\ session = 1
    /\ intervalId = Timer("streaming")
    /\ timers = [streaming |-> 1, polling |-> 0]
    /\ connects = 1
    /\ socket = [c \in Sessions |-> IF c = 1 THEN "open" ELSE "idle"]
    /\ promise = [c \in Sessions |-> IF c = 1 THEN "settled" ELSE "none"]
    /\ blobPending = 0
    /\ encodePending = 0
    /\ pollPending = 0

\* the service polling after its first live connect was rejected
\* (connect, connect rejected)
PollingTier ==
    /\ apiKey = "key"
    /\ ai = "client"
    /\ isFallbackActive = TRUE
    /\ session = Null
    /\ intervalId = Timer("polling")
    /\ timers = [streaming |-> 0, polling |-> 1]
    /\ connects = 1
    /\ socket = [c \in Sessions |-> IF c = 1 THEN "failed" ELSE "idle"]
    /\ promise = [c \in Sessions |-> IF c = 1 THEN "settled" ELSE "none"]
    /\ blobPending = 0
    /\ encodePending = 0
    /\ pollPending = 0

InitTiers == (LiveTier \/ PollingTier) /\ InitApp /\ Unmounted

InitLive == LiveTier /\ InitApp /\ Unmounted

\* the scene beside the service streaming on its live session: just
\* mounted, or at rest in chaos
InitScene ==
    /\ LiveTier
    /\ \/ InitApp /\ Mounted
       \/ /\ gestureData = GestureDataOf("CHAOS", 0, 0)
          /\ progress = One
          /\ target = Target("CHAOS")
          /\ turns = 0
          /\ last = Ev("init")
          /\ Scattered

InFlight == blobPending + encodePending + pollPending

-----------------------------------------------------------------------------
(* Actions: App *)

\* onloadedmetadata: if (process.env.API_KEY) geminiService.connect(...),
\* up to the await of live.connect
Connect ==
    /\ connects < MaxConnects
    /\ IF Truthy(apiKey)
       THEN IF Truthy(apiKey)
            THEN /\ Commit([connectEnter(Svc, apiKey)
                              EXCEPT !.socket[connects + 1] = "connecting"])
                 /\ connects' = connects + 1
                 /\ promise' = [promise EXCEPT ![connects + 1] = "pending"]
            ELSE /\ Commit(connectEnter(Svc, apiKey))
                 /\ UNCHANGED <<connects, promise>>
       ELSE UNCHANGED <<svcVars, connects, promise>>
    /\ last' = Ev("step")
    /\ UNCHANGED <<apiKey, turns, target, sceneVars, flightVars, gestureData, progress>>

\* effect cleanup: geminiService.disconnect()
Disconnect ==
    /\ Commit(disconnect(Svc))
    /\ last' = Ev("step")
    /\ UNCHANGED <<apiKey, turns, target, sceneVars, envVars, flightVars, gestureData, progress>>

\* the button: toggleSimulation
\* A click is a discrete input event: React renders and runs Experience's
\* effect before the handler's task ends.  The effect runs when the tree
\* state it last ran for differs from the new one: it captures the new
\* target and calls animate() once before it returns.
Click ==
    /\ turns < MaxTurns
    /\ turns' = turns + 1
    /\ gestureData' = toggleSimulation(gestureData)
    /\ LET goal == Target(toggleSimulation(gestureData).state)
       IN  /\ target' = goal
           /\ progress' = IF goal # target
                           THEN animate(progress, goal)
                           ELSE progress
    /\ last' = EvPrev("toggle", gestureData)
    /\ UNCHANGED <<apiKey, svcVars, envVars, flightVars>>

\* the click renders Experience and with it a mounted ensemble, which
\* makes its tempObject anew and captures the progress prop of that render:
\* the progress from before the effect ran.  The render that follows the
\* effect's setProgress is a Render of its own.
Toggle ==
    /\ Click
    /\ IF ensemble = NoEnsemble
       THEN UNCHANGED sceneVars
       ELSE LET r == render(heap, ensemble, progress)
            IN  heap' = r.heap /\ ensemble' = r.data

\* Experience's effect runs again after a render with a new
\* gestureData.state: the old loop is cancelled, the new animate closure
\* captures the new target and the effect calls it once before it returns.
\* After a gesture callback this happens in a later task than the callback
\* itself.
Effect ==
    /\ target # Target(gestureData.state)
    /\ target' = Target(gestureData.state)
    /\ progress' = animate(progress, Target(gestureData.state))
    /\ last' = Ev("step")
    /\ UNCHANGED <<apiKey, turns, sceneVars, svcVars, envVars, flightVars,
                   gestureData>>

\* a frame requested by the loop runs animate; it can still be a frame of
\* the loop of the previous effect
Animate ==
    /\ progress' = animate(progress, target)
    /\ last' = Ev("frame")
    /\ UNCHANGED <<apiKey, turns, target, sceneVars, svcVars, envVars, flightVars,
                   gestureData>>

\* Ornaments or Fillers renders again (App or Experience rendered: a new
\* progress, new gesture data, any other state of App); a step of the
\* display loop like the frames it follows
Render ==
    /\ ensemble # NoEnsemble
    /\ LET r == render(heap, ensemble, progress)
       IN  heap' = r.heap /\ ensemble' = r.data
    /\ last' = Ev("frame")
    /\ UNCHANGED <<apiKey, svcVars, envVars, flightVars, gestureData,
                   progress, target, turns>>

\* useFrame of Ornaments
OrnamentsFrame(wobble) ==
    /\ ensemble.kind = "ornaments"
    /\ heap' = frame(heap, ensemble, wobble)
    /\ last' = Ev("frame")
    /\ UNCHANGED <<apiKey, svcVars, envVars, flightVars, gestureData,
                   progress, target, ensemble, turns>>

\* useFrame of Fillers
FillersFrame ==
    /\ ensemble.kind = "fillers"
    /\ heap' = frame(heap, ensemble, 0)
    /\ last' = Ev("frame")
    /\ UNCHANGED <<apiKey, svcVars, envVars, flightVars, gestureData,
                   progress, target, ensemble, turns>>

-----------------------------------------------------------------------------
(* Actions: the live tier *)

\* callbacks.onopen
OnOpen(c) ==
    /\ socket[c] = "connecting"
    /\ Commit(startStreamingLive([Svc EXCEPT !.socket[c] = "open"]))
    /\ last' = Ev("step")
    /\ UNCHANGED <<apiKey, turns, target, sceneVars, envVars, flightVars, gestureData, progress>>

\* this.session = await this.ai.live.connect(...): the promise resolves,
\* which it does once the socket is open
ConnectResolve(c) ==
    /\ promise[c] = "pending"
    /\ socket[c] = "open"
    /\ promise' = [promise EXCEPT ![c] = "settled"]
    /\ Commit([Svc EXCEPT !.session = c])
    /\ last' = Ev("step")
    /\ UNCHANGED <<apiKey, turns, target, sceneVars, connects, flightVars, gestureData, progress>>

\* the promise rejects instead of resolving, the socket not being open:
\* catch (error) { switchToFallback }; a socket that never opened raises no
\* event afterwards
ConnectReject(c) ==
    /\ promise[c] = "pending"
    /\ socket[c] # "open"
    /\ promise' = [promise EXCEPT ![c] = "settled"]
    /\ Commit([switchToFallback(Svc) EXCEPT
                  !.socket[c] = IF @ = "connecting" THEN "failed" ELSE @])
    /\ last' = EvTo("reject", session)
    /\ UNCHANGED <<apiKey, turns, target, sceneVars, connects, flightVars, gestureData, progress>>

\* callbacks.onerror, at most once per socket
OnError(c) ==
    /\ socket[c] \in {"connecting", "open", "closed"}
    /\ Commit([switchToFallback(Svc) EXCEPT !.socket[c] = "failed"])
    /\ last' = EvTo("onerror", session)
    /\ UNCHANGED <<apiKey, turns, target, sceneVars, envVars, flightVars, gestureData, progress>>

\* callbacks.onmessage with one text part (a message of several parts acts
\* as that many messages in a row; one without parts changes nothing)
Receive(c, text) ==
    /\ socket[c] = "open"
    /\ LET p == LiveParse(text)
       IN  IF text.form # "empty" /\ p.ok
           THEN /\ gestureData' = GestureCallback(gestureData, LiveDecode(p.json))
                /\ last' = EvData("onmessage", text, LiveDecode(p.json))
           ELSE /\ UNCHANGED gestureData
                /\ last' = EvText("onmessage", text)
    /\ UNCHANGED <<apiKey, target, sceneVars, svcVars, envVars, flightVars, progress>>

OnMessage(c, text) == Receive(c, text) /\ UNCHANGED turns

\* a live message while the scene is followed, counted like a click
SceneMessage(c, text) ==
    /\ turns < MaxTurns
    /\ turns' = turns + 1
    /\ Receive(c, text)

\* a tick of a streaming timer, up to canvas.toBlob; videoReady: this.ctx and
\* videoEl.videoWidth are both truthy
StreamTick(videoReady) ==
    /\ timers.streaming > 0
    /\ IF isFallbackActive \/ session = Null \/ ~videoReady
       THEN UNCHANGED blobPending
       ELSE /\ InFlight < MaxPending
            /\ blobPending' = blobPending + 1
    /\ last' = Ev("step")
    /\ UNCHANGED <<apiKey, turns, target, sceneVars, svcVars, envVars, encodePending, pollPending,
                   gestureData, progress>>

\* the toBlob callback, up to await blobToBase64
BlobReady(blobOk) ==
    /\ blobPending > 0
    /\ blobPending' = blobPending - 1
    /\ IF blobOk /\ session # Null /\ ~isFallbackActive
       THEN encodePending' = encodePending + 1
       ELSE UNCHANGED encodePending
    /\ last' = Ev("step")
    /\ UNCHANGED <<apiKey, turns, target, sceneVars, svcVars, envVars, pollPending, gestureData, progress>>

\* blobToBase64 settles; on success session.sendRealtimeInput is called,
\* which throws (and is swallowed) when this.session is null
EncodeDone(readOk) ==
    /\ encodePending > 0
    /\ encodePending' = encodePending - 1
    /\ last' = IF readOk /\ session # Null THEN EvTo("send", session)
               ELSE Ev("step")
    /\ UNCHANGED <<apiKey, turns, target, sceneVars, svcVars, envVars, blobPending, pollPending,
                   gestureData, progress>>

-----------------------------------------------------------------------------
(* Actions: the polling tier *)

\* a tick of a polling timer, up to await generateContent; videoReady:
\* this.ctx and videoEl.videoWidth are both truthy
PollTick(videoReady) ==
    /\ timers.polling > 0
    /\ IF ai = "null" \/ ~videoReady
       THEN UNCHANGED pollPending
       ELSE /\ InFlight < MaxPending
            /\ pollPending' = pollPending + 1
    /\ last' = Ev("step")
    /\ UNCHANGED <<apiKey, turns, target, sceneVars, svcVars, envVars, blobPending, encodePending,
                   gestureData, progress>>

\* generateContent resolves with a text
PollResponse(text) ==
    /\ pollPending > 0
    /\ pollPending' = pollPending - 1
    /\ LET p == PollParse(text)
       IN  IF text.form # "empty" /\ p.ok
           THEN /\ gestureData' = GestureCallback(gestureData, PollDecode(p.json))
                /\ last' = EvData("pollresponse", text, PollDecode(p.json))
           ELSE /\ UNCHANGED gestureData
                /\ last' = EvText("pollresponse", text)
    /\ UNCHANGED <<apiKey, turns, target, sceneVars, svcVars, envVars, blobPending, encodePending, progress>>

\* generateContent rejects: console.error("Fallback error", e)
PollFail ==
    /\ pollPending > 0
    /\ pollPending' = pollPending - 1
    /\ last' = Ev("pollfail")
    /\ UNCHANGED <<apiKey, turns, target, sceneVars, svcVars, envVars, blobPending, encodePending,
                   gestureData, progress>>

-----------------------------------------------------------------------------
(* Specifications *)

\* the service and the App, from construction
Next ==
    \/ Connect
    \/ Disconnect
    \/ Toggle
    \/ \E c \in Sessions : OnOpen(c)
    \/ \E c \in Sessions : ConnectResolve(c)
    \/ \E c \in Sessions : ConnectReject(c)
    \/ \E c \in Sessions : OnError(c)
    \/ \E c \in Sessions, text \in ServiceTexts : OnMessage(c, text)
    \/ \E v \in BOOLEAN : StreamTick(v)
    \/ \E b \in BOOLEAN : BlobReady(b)
    \/ \E r \in BOOLEAN : EncodeDone(r)
    \/ \E v \in BOOLEAN : PollTick(v)
    \/ \E text \in ServiceTexts : PollResponse(text)
    \/ PollFail

Spec == Init /\ [][Next]_vars

\* responses of every shape, delivered on either tier
NextApp ==
    \/ Toggle
    \/ \E c \in Sessions, text \in AllTexts : OnMessage(c, text)
    \/ \E v \in BOOLEAN : PollTick(v)
    \/ \E text \in AllTexts : PollResponse(text)
    \/ PollFail

SpecApp == InitTiers /\ [][NextApp]_vars

\* the animation loop under gestures and the button; requestAnimationFrame
\* keeps scheduling frames
NextAnim ==
    \/ Toggle
    \/ \E c \in Sessions, text \in AnimTexts : OnMessage(c, text)
    \/ Effect
    \/ Animate

\* the browser keeps serving animation frames and React runs a pending
\* effect
SpecAnim ==
    InitLive /\ [][NextAnim]_vars /\ WF_vars(Animate) /\ WF_vars(Effect)

\* The scene: gestures and the button move the tree state, the animation moves
\* progress, the ensembles render and their frame loops move the particles.
NextScene ==
    \/ \E c \in Sessions, text \in SceneTexts : SceneMessage(c, text)
    \/ Effect
    \/ Toggle
    \/ Animate
    \/ Render
    \/ \E wobble \in Wobble : OrnamentsFrame(wobble)
    \/ FillersFrame

SpecScene == InitScene /\ [][NextScene]_vars

-----------------------------------------------------------------------------
(* Claims *)

Delivered == last.called
DeliveredNext == last'.called

\* C1 as stated: whenever the tree state is CHAOS and a gesture whose state
\* is FORMED is delivered, the tree state becomes FORMED.
C1_Reforms ==
    [][(gestureData.state = "CHAOS" /\ DeliveredNext /\ last'.data.state = "FORMED")
         => gestureData'.state = "FORMED"]_vars

\* C1 amended: whenever the tree state is CHAOS and a gesture whose state is
\* FORMED is delivered, the tree state stays CHAOS.
C1_StaysChaos ==
    [][(gestureData.state = "CHAOS" /\ DeliveredNext /\ last'.data.state = "FORMED")
         => gestureData'.state = "CHAOS"]_vars

C1_Witness ==
    /\ Delivered
    /\ last.data.state = "FORMED"
    /\ gestureData.state = "CHAOS"

\* C2: for every prior app state, once a gesture whose state is CHAOS has
\* been delivered the tree state is CHAOS.
C2_ChaosGesture ==
    (Delivered /\ last.data.state = "CHAOS") => gestureData.state = "CHAOS"

C2_Witness ==
    /\ Delivered
    /\ last.op = "pollresponse"
    /\ last.data.state = "CHAOS"
    /\ gestureData.state = "CHAOS"

\* C3 as stated: after onerror or a rejected live connect the service has
\* isFallbackActive true, no streaming timer active, the recorded session
\* closed and the field null, and a polling timer running.
C3_Downgraded ==
    last.op \in {"onerror", "reject"} =>
        /\ isFallbackActive
        /\ timers.streaming = 0
        /\ session = Null
        /\ last.to # Null => socket[last.to] \in {"closed", "failed"}
        /\ timers.polling > 0

\* C4 as stated: while fallback is active (from switchToFallback until the
\* next connect or disconnect) no frame is sent to a live session.
C4_NoSendInFallback ==
    ~(last.op = "send" /\ isFallbackActive)

\* C5: without an API key no client, session, socket, timer or request ever
\* exists, the gesture callback is never invoked, handX = handY = 0, and the
\* gesture data changes only in a toggleSimulation step.
C5_NoKeyState ==
    apiKey = "" =>
        /\ ai = "null"
        /\ session = Null
        /\ intervalId = NoTimer
        /\ timers = NoTimers
        /\ connects = 0
        /\ \A c \in Sessions : socket[c] = "idle" /\ promise[c] = "none"
        /\ InFlight = 0
        /\ ~Delivered
        /\ gestureData.handX = 0
        /\ gestureData.handY = 0

C5_NoKeyStep ==
    (apiKey = "" /\ gestureData' # gestureData) => last'.op = "toggle"

C5_NoKey == []C5_NoKeyState /\ [][C5_NoKeyStep]_vars

C5_Witness ==
    /\ apiKey = ""
    /\ last.op = "toggle"
    /\ gestureData = GestureDataOf("CHAOS", 0, 0)

\* C6 as stated: every GestureData delivered to the callback has handX and
\* handY within -1 .. 1.
C6_HandInRange ==
    Delivered => (last.data.handX \in -1..1 /\ last.data.handY \in -1..1)

C7_Twice == toggleSimulation(toggleSimulation(gestureData)) = gestureData

\* C7: toggleSimulation flips the tree state, leaves handX and handY as they
\* were, and a second toggle right after a first restores the gesture data
\* the first one started from: applied twice to any gesture data the App
\* holds, it gives that gesture data back.
C7_ToggleStep ==
    last'.op = "toggle" =>
        /\ gestureData.state = "FORMED" => gestureData'.state = "CHAOS"
        /\ gestureData.state = "CHAOS" => gestureData'.state = "FORMED"
        /\ gestureData'.handX = gestureData.handX
        /\ gestureData'.handY = gestureData.handY
        /\ last.op = "toggle" => gestureData' = last.data

C7_Toggle == [][C7_ToggleStep]_vars /\ []C7_Twice

C7_Witness ==
    /\ last.op = "toggle"
    /\ last.data.state = "CHAOS"
    /\ gestureData.state = "FORMED"
    /\ gestureData.handX # 0
    /\ gestureData.handY # 0

C8_Range == progress \in 0..One

C8_FrameStep ==
    progress' # progress =>
        IF gestureData'.state = "CHAOS"
        THEN progress < progress' /\ progress' <= One
        ELSE progress' < progress /\ progress' >= 0

\* C8 as stated: progress stays within [0, 1]; no step moves it away from
\* the target of the tree state (1 for CHAOS, 0 for FORMED) nor past it; if the tree state stays CHAOS (FORMED) from some point on, progress
\* eventually is exactly 1 (0) and stays there.
C8_Progress ==
    /\ []C8_Range
    /\ [][C8_FrameStep]_vars
    /\ (<>[](gestureData.state = "CHAOS") => <>[](progress = One))
    /\ (<>[](gestureData.state = "FORMED") => <>[](progress = 0))

C8_EffectStep ==
    /\ progress' # progress =>
          IF target' = One
          THEN progress < progress' /\ progress' <= One
          ELSE progress' < progress /\ progress' >= 0
    /\ target' # target => target' = Target(gestureData'.state)

\* C8 amended: progress stays within [0, 1]; no step moves it away from
\* the target captured by the running effect nor past it; that target
\* only ever changes to the target of the current tree state (1 for CHAOS,
\* 0 for FORMED); if the tree state stays CHAOS (FORMED) from some point
\* on, progress eventually is exactly 1 (0) and stays there.
C8_FollowsEffect ==
    /\ []C8_Range
    /\ [][C8_EffectStep]_vars
    /\ (<>[](gestureData.state = "CHAOS") => <>[](progress = One))
    /\ (<>[](gestureData.state = "FORMED") => <>[](progress = 0))

C8_Witness ==
    /\ last.op = "frame"
    /\ gestureData.state = "CHAOS"
    /\ progress = One

\* C9: while the tree state is CHAOS a delivered gesture leaves it CHAOS and
\* replaces handX and handY by the delivered values; a step from CHAOS to
\* FORMED is a toggleSimulation step.
C9_LatchStep ==
    gestureData.state = "CHAOS" =>
        /\ DeliveredNext =>
              /\ gestureData'.state = "CHAOS"
              /\ gestureData'.handX = last'.data.handX
              /\ gestureData'.handY = last'.data.handY
        /\ gestureData'.state = "FORMED" => last'.op = "toggle"

C9_Latch == [][C9_LatchStep]_vars

C9_Witness ==
    /\ Delivered
    /\ last.data = GestureDataOf("FORMED", -2, 2)
    /\ gestureData = GestureDataOf("CHAOS", -2, 2)

\* C10: on either tier the delivered state is CHAOS exactly when the
\* response's state field is the string 'CHAOS' and FORMED otherwise, and
\* handX / handY are the response's x / y when numbers and 0 otherwise.
C10_Decoded ==
    Delivered =>
        LET j == last.text.json
        IN  /\ last.op \in {"onmessage", "pollresponse"}
            /\ last.data.state \in TreeState
            /\ last.data.state = "CHAOS" <=> (j.state.t = "string" /\ j.state.s = "CHAOS")
            /\ j.x.t = "number" => last.data.handX = j.x.n
            /\ j.x.t # "number" => last.data.handX = 0
            /\ j.y.t = "number" => last.data.handY = j.y.n
            /\ j.y.t # "number" => last.data.handY = 0

C10_Witness ==
    /\ Delivered
    /\ last.op = "onmessage"
    /\ last.text.json = Json(Str("chaos"), Str("1"), Undef)
    /\ last.data = GestureDataOf("FORMED", 0, 0)


-----------------------------------------------------------------------------
(* Teardown and the single timer *)

\* Timers created by the service that are still running, recorded or not.
ActiveTimers == timers.streaming + timers.polling

\* disconnect() has returned and connect() has not been entered again with
\* a key: only disconnect() writes null to ai and only connect() replaces
\* it (before the first connect there is neither timer nor request).
Disconnected == ai = "null"

\* C11: after disconnect() returns, and until the next connect, no interval
\* timer started by the service is still active and the gesture callback is
\* not invoked, also when a live connect was pending, when onopen or onerror
\* arrive late, and when polling requests were in flight.
C11_QuietAfterDisconnect ==
    Disconnected => /\ ActiveTimers = 0
                    /\ ~Delivered

\* C12: in every reachable state at most one interval timer created by the
\* service is active and it is the one recorded in intervalId, so a
\* streaming timer and a polling timer never run at the same time.
C12_SingleTimer ==
    /\ ActiveTimers <= 1
    /\ ActiveTimers = 1 => /\ intervalId.active
                           /\ timers[intervalId.kind] = 1
    /\ ~(timers.streaming > 0 /\ timers.polling > 0)


-----------------------------------------------------------------------------
(* Best-effort gesture pipeline *)

\* Texts that are not valid JSON as a whole (polling tier): JSON.parse
\* rejects them, or the empty text is skipped before it.
InvalidJson == {"empty", "wrapped", "broken", "garbage"}

\* Texts in which the live tier finds no parsable JSON object: the empty
\* text is skipped, /\{.*\}/ finds no match in one line (an object spread
\* over several lines included), or JSON.parse rejects the match.
NoJsonObject == {"empty", "multiline", "scalar", "null", "broken", "garbage"}

\* The last step was a polling request that threw or answered invalid JSON.
PollFailed ==
    \/ last.op = "pollfail"
    \/ last.op = "pollresponse" /\ last.text.form \in InvalidJson

\* The last step was a live message without a parsable JSON object.
LiveIgnored == last.op = "onmessage" /\ last.text.form \in NoJsonObject

\* A polling tick that passes its guard and issues generateContent.
PollIssues == PollTick(TRUE) /\ pollPending' = pollPending + 1

\* A streaming tick that passes its guard and captures a frame to send.
StreamIssues == StreamTick(TRUE) /\ blobPending' = blobPending + 1

C13_FailStep ==
    (PollFailed' \/ LiveIgnored') =>
        /\ ~DeliveredNext
        /\ UNCHANGED <<gestureData, intervalId, timers, session,
                       isFallbackActive, ai>>

C13_NextTick ==
    /\ PollFailed => ENABLED PollIssues
    /\ LiveIgnored => ENABLED StreamIssues

\* C13: a polling request that throws or returns text that is not valid
\* JSON, and a live message whose text contains no parsable JSON object,
\* invokes no gesture callback and leaves the service's timer, session and
\* fallback flag unchanged, and the next tick of the running timer issues a
\* request as usual.
C13_BestEffort == []C13_NextTick /\ [][C13_FailStep]_vars

C13_Witness ==
    /\ last.op = "pollfail"
    /\ isFallbackActive /\ intervalId = Timer("polling") /\ timers.polling = 1
    /\ ENABLED PollIssues


-----------------------------------------------------------------------------
(* The two arrangements of an ensemble *)

\* the particle is on its way: away from both of its arrangements
Underway ==
    /\ heap[ensemble.currentPos] # heap[ensemble.targetPos]
    /\ heap[ensemble.currentPos] # heap[ensemble.chaosPos]

C14_Step ==
    ensemble # NoEnsemble =>
        /\ ensemble'.targetPos = ensemble.targetPos
        /\ ensemble'.chaosPos = ensemble.chaosPos
        /\ ensemble'.currentPos = ensemble.currentPos
        /\ Len(heap') = Len(heap)
        /\ heap'[ensemble.targetPos] = heap[ensemble.targetPos]
        /\ heap'[ensemble.chaosPos] = heap[ensemble.chaosPos]
        /\ \A ref \in DOMAIN heap :
              heap'[ref] # heap[ref] => ref \in {ensemble.currentPos, ensemble.temp}

\* C14: after an ensemble is created, no frame update, render, progress
\* change or tree-state change modifies a particle's formed position
\* (targetPos) or chaos position (chaosPos); of the particle only its
\* current position changes.
C14_ArrangementsFixed == [][C14_Step]_vars

\* a particle of a freshly mounted ensemble is on its way to chaos after the
\* tree state changed and progress crossed one half
C14_Witness ==
    /\ ensemble # NoEnsemble
    /\ turns = 1
    /\ gestureData.state = "CHAOS"
    /\ progress * 2 > One
    /\ progress < One
    /\ ensemble.chaotic
    /\ last.op = "frame"
    /\ Underway

=============================================================================
